---- MODULE Spec2Model ----
(***************************************************************************)
(* OsqpLateralQPOptimizer (modules/planning/math/finite_element_qp/        *)
(* osqp_lateral_qp_optimizer.cc): one optimizer instance on which          *)
(* optimize() is called repeatedly.  A call builds the kernel and the      *)
(* affine constraints, assembles the OSQP problem, solves it, extracts the *)
(* primal solution into the instance's three output vectors and releases   *)
(* the solver's resources.                                                 *)
(*                                                                         *)
(* Numbers.  The c_float quantities are modelled by exact integers.  The   *)
(* entries of affine_constraint involve 0.5, 1/3 and 1/6, so they are held *)
(* as numerators over Den (= 6): the entry a is stored as a * Den.  Bound  *)
(* vectors, kernel, q, the solver's primal vector and the inputs are plain *)
(* integers.                                                               *)
(***************************************************************************)
EXTENDS Integers, Sequences, FiniteSets, TLC

\* ------------------------------------------------------------------ bounds
\* largest number of stations of one call
MaxN == 2
\* largest total length of an output vector (caps the number of calls)
MaxLen == 3

\* ------------------------------------------------------ program constants
\* common denominator of the coefficients 0.5, 1/3, 1/6 of affine_constraint
Den == 6
LARGE_VALUE == 2

\* ------------------------------------------------------------ input domains
\* The arguments satisfy optimize's documented preconditions: at least one
\* station, lower <= upper at every station, delta_s > 0.  The primal vector
\* and the status left by osqp_solve are unconstrained: any vector over XVals
\* with any status, feasible or not.
\* d_state: (offset, first derivative, second derivative)
InitStates == { <<0, 0, 0>>, <<1, 0, 0>>, <<0, 1, 0>>, <<0, 0, 1>> }
\* delta_s
DeltaVals == {1, 2}
\* one station's (lower, upper), lower <= upper
BoundPairs == { <<0, 1>>, <<1, 1>> }
\* values of one entry of the solver's primal vector
XVals == {0, 1}
\* osqp status values after osqp_solve
StatusVals == {"solved", "primal_infeasible", "max_iter_reached"}
\* the gflags read by the optimizer
FlagConfigs ==
  { [weight_lateral_offset |-> 1, weight_lateral_obstacle_distance |-> 0,
     weight_lateral_derivative |-> 5, weight_lateral_second_order_derivative |-> 10,
     lateral_third_order_derivative_max |-> 1, enable_osqp_debug |-> FALSE],
    [weight_lateral_offset |-> 2, weight_lateral_obstacle_distance |-> 1,
     weight_lateral_derivative |-> 4, weight_lateral_second_order_derivative |-> 7,
     lateral_third_order_derivative_max |-> 2, enable_osqp_debug |-> TRUE] }

VARIABLES
  opt_d_, opt_d_prime_, opt_d_pprime_,   \* the instance's output vectors
  delta_s_,                              \* member set by optimize
  FLAGS,                                 \* the process's gflags
  pc,                                    \* position of the current call
  d_state, delta_s, d_bounds,            \* arguments of the current call
  P_data,                                \* CSC triple of the kernel
  affine_constraint, lower_bounds, upper_bounds,
  constraint_index,
  assigned,                              \* rows of the bound arrays written
  oob,                                   \* a row/column written out of range
  q, settings, data,
  work,                                  \* OSQP workspace: solution x, status
  heap,                                  \* solver-owned allocations
  ret,                                   \* value returned by the call
  base                                   \* length of opt_d_ when the call began

vars == << opt_d_, opt_d_prime_, opt_d_pprime_, delta_s_, FLAGS, pc, d_state,
           delta_s, d_bounds, P_data, affine_constraint, lower_bounds,
           upper_bounds, constraint_index, assigned, oob, q, settings, data,
           work, heap,
           ret, base >>

outputs == << opt_d_, opt_d_prime_, opt_d_pprime_ >>
locals == << d_state, delta_s, d_bounds, P_data, affine_constraint,
             lower_bounds, upper_bounds, constraint_index, assigned, oob, q, settings,
             data, work, ret >>

\* --------------------------------------------------------------- matrices
Zero(rows, cols) == [r \in 0..(rows - 1) |-> [c \in 0..(cols - 1) |-> 0]]

\* the (row, value) pairs of the nonzeros of column c, from row r downwards
RECURSIVE ColumnEntries(_, _, _, _)
ColumnEntries(M, rows, c, r) ==
  IF r >= rows THEN << >>
  ELSE (IF M[r][c] = 0 THEN << >> ELSE << <<r, M[r][c]>> >>)
       \o ColumnEntries(M, rows, c, r + 1)

RECURSIVE CSCFrom(_, _, _, _, _)
CSCFrom(M, rows, cols, c, acc) ==
  IF c >= cols
  THEN [acc EXCEPT !.indptr = Append(@, Len(acc.data))]
  ELSE LET e == ColumnEntries(M, rows, c, 0)
       IN CSCFrom(M, rows, cols, c + 1,
                  [data    |-> acc.data \o [k \in 1..Len(e) |-> e[k][2]],
                   indices |-> acc.indices \o [k \in 1..Len(e) |-> e[k][1]],
                   indptr  |-> Append(acc.indptr, Len(acc.data))])

\* column-major enumeration of the nonzeros: (values, row indices, column pointers)
DenseToCSCMatrix(M, rows, cols) ==
  CSCFrom(M, rows, cols, 0, [data |-> << >>, indices |-> << >>, indptr |-> << >>])

\* csc_matrix(m, n, nzmax, x, i, p): the csc structure over the given arrays
csc_matrix(m, n, csc) ==
  [m |-> m, n |-> n, nzmax |-> Len(csc.data), x |-> csc.data, i |-> csc.indices,
   p |-> csc.indptr]

\* the entry (r, c) a csc structure stands for
CscEntry(A, r, c) ==
  LET ks == { k \in 1..A.nzmax : A.p[c + 1] < k /\ k <= A.p[c + 2] /\ A.i[k] = r }
  IN IF ks = {} THEN 0 ELSE A.x[CHOOSE k \in ks : TRUE]

CscToDense(A) == [r \in 0..(A.m - 1) |-> [c \in 0..(A.n - 1) |-> CscEntry(A, r, c)]]

\* ------------------------------------------------------------ CalculateKernel
KernelDiagonal_BlockOffByOne(i, num_var, F) ==
  IF i <= num_var
  THEN 2 * F.weight_lateral_offset + 2 * F.weight_lateral_obstacle_distance
  ELSE IF i <= 2 * num_var
       THEN 2 * F.weight_lateral_derivative
       ELSE 2 * F.weight_lateral_second_order_derivative

KernelDiagonal(i, num_var, F) ==
  IF i < num_var
  THEN 2 * F.weight_lateral_offset + 2 * F.weight_lateral_obstacle_distance
  ELSE IF i < 2 * num_var
       THEN 2 * F.weight_lateral_derivative
       ELSE 2 * F.weight_lateral_second_order_derivative

Kernel(bounds, F) ==
  LET kNumParam == 3 * Len(bounds)
  IN [r \in 0..(kNumParam - 1) |->
        [c \in 0..(kNumParam - 1) |->
           IF r = c THEN KernelDiagonal(r, Len(bounds), F) ELSE 0]]

CalculateKernel(bounds, F) ==
  DenseToCSCMatrix(Kernel(bounds, F), 3 * Len(bounds), 3 * Len(bounds))

\* ------------------------------------------------- constraint construction
\* The builder's state: affine_constraint (numerators over Den), the two bound
\* arrays (not initialised by their declaration: assigned holds the rows whose
\* bounds have been written), the running row counter, and whether a write
\* fell outside the matrix or the arrays.
KNumParam(num_var) == 3 * num_var

KNumConstraint(num_var) == KNumParam(num_var) + 3 * (num_var - 1) + 3

NewBuilder(num_var) ==
  [affine_constraint |-> Zero(KNumConstraint(num_var), KNumParam(num_var)),
   lower_bounds      |-> [r \in 0..(KNumConstraint(num_var) - 1) |-> 0],
   upper_bounds      |-> [r \in 0..(KNumConstraint(num_var) - 1) |-> 0],
   constraint_index  |-> 0,
   assigned          |-> {},
   oob               |-> FALSE]

\* affine_constraint(row, col) = v, v given as a numerator over Den
SetCoeff(b, row, col, v) ==
  IF row \in DOMAIN b.affine_constraint /\ col \in DOMAIN b.affine_constraint[row]
  THEN [b EXCEPT !.affine_constraint[row][col] = v]
  ELSE [b EXCEPT !.oob = TRUE]

\* lower_bounds[row] = lo; upper_bounds[row] = hi
SetBounds(b, row, lo, hi) ==
  IF row \in DOMAIN b.lower_bounds
  THEN [b EXCEPT !.lower_bounds[row] = lo, !.upper_bounds[row] = hi,
                 !.assigned = @ \cup {row}]
  ELSE [b EXCEPT !.oob = TRUE]

NextRow(b) == [b EXCEPT !.constraint_index = @ + 1]

\* d_i+1'' - d_i''
JerkRow_NoIncrement(b, i, num_var, ds, F) ==
  LET row == b.constraint_index
      col == 2 * num_var + i
      b1  == SetCoeff(b, row, col, -Den)
      b2  == SetCoeff(b1, row, col + 1, Den)
  IN SetBounds(b2, b.constraint_index,
               -(F.lateral_third_order_derivative_max * ds),
               F.lateral_third_order_derivative_max * ds)

JerkRow(b, i, num_var, ds, F) ==
  LET row == b.constraint_index
      col == 2 * num_var + i
      b1  == SetCoeff(b, row, col, -Den)
      b2  == SetCoeff(b1, row, col + 1, Den)
      b3  == SetBounds(b2, b.constraint_index,
                       -(F.lateral_third_order_derivative_max * ds),
                       F.lateral_third_order_derivative_max * ds)
  IN NextRow(b3)

RECURSIVE JerkLoop(_, _, _, _, _)
JerkLoop(b, i, num_var, ds, F) ==
  IF i + 1 < num_var THEN JerkLoop(JerkRow(b, i, num_var, ds, F), i + 1, num_var, ds, F)
  ELSE b

\* d_i+1' - d_i' - 0.5 * ds * (d_i'' + d_i+1'')
VelocityRow(b, i, num_var, ds) ==
  LET ci == b.constraint_index
      b1 == SetCoeff(b, ci, num_var + i, -Den)
      b2 == SetCoeff(b1, ci, num_var + i + 1, Den)
      b3 == SetCoeff(b2, ci, 2 * num_var + i, -((Den \div 2) * ds))
      b4 == SetCoeff(b3, ci, 2 * num_var + i + 1, -((Den \div 2) * ds))
      b5 == SetBounds(b4, ci, 0, 0)
  IN NextRow(b5)

RECURSIVE VelocityLoop(_, _, _, _)
VelocityLoop(b, i, num_var, ds) ==
  IF i + 1 < num_var THEN VelocityLoop(VelocityRow(b, i, num_var, ds), i + 1, num_var, ds)
  ELSE b

\* d_i+1 - d_i - d_i' * ds - 1/3 * d_i'' * ds^2 - 1/6 * d_i+1'' * ds^2
PositionRow_Swapped(b, i, num_var, ds) ==
  LET ci == b.constraint_index
      b1 == SetCoeff(b, ci, i, -Den)
      b2 == SetCoeff(b1, ci, i + 1, Den)
      b3 == SetCoeff(b2, ci, num_var + i, -(ds * Den))
      b4 == SetCoeff(b3, ci, 2 * num_var + i, -((ds * ds * Den) \div 6))
      b5 == SetCoeff(b4, ci, 2 * num_var + i + 1, -((ds * ds * Den) \div 3))
      b6 == SetBounds(b5, ci, 0, 0)
  IN NextRow(b6)

PositionRow(b, i, num_var, ds) ==
  LET ci == b.constraint_index
      b1 == SetCoeff(b, ci, i, -Den)
      b2 == SetCoeff(b1, ci, i + 1, Den)
      b3 == SetCoeff(b2, ci, num_var + i, -(ds * Den))
      b4 == SetCoeff(b3, ci, 2 * num_var + i, -((ds * ds * Den) \div 3))
      b5 == SetCoeff(b4, ci, 2 * num_var + i + 1, -((ds * ds * Den) \div 6))
      b6 == SetBounds(b5, ci, 0, 0)
  IN NextRow(b6)

RECURSIVE PositionLoop(_, _, _, _)
PositionLoop(b, i, num_var, ds) ==
  IF i + 1 < num_var THEN PositionLoop(PositionRow(b, i, num_var, ds), i + 1, num_var, ds)
  ELSE b

\* one row fixing the variable at column col to value
PinRow(b, col, value) ==
  LET ci == b.constraint_index
      b1 == SetCoeff(b, ci, col, Den)
      b2 == SetBounds(b1, ci, value, value)
  IN NextRow(b2)

\* the three rows fixing d_0, d_0', d_0'' to d_state
PinRows_AllOffset(b, num_var, st) ==
  PinRow(PinRow(PinRow(b, 0, st[1]), num_var, st[1]), 2 * num_var, st[1])

PinRows(b, num_var, st) ==
  PinRow(PinRow(PinRow(b, 0, st[1]), num_var, st[2]), 2 * num_var, st[3])

\* one identity row with the variable's box
BoxRow_NoStationBound(b, i, num_var, bounds) ==
  LET ci == b.constraint_index
      b1 == SetCoeff(b, ci, i, Den)
      b2 == SetBounds(b1, ci, -LARGE_VALUE, LARGE_VALUE)
  IN NextRow(b2)

BoxRow(b, i, num_var, bounds) ==
  LET ci == b.constraint_index
      b1 == SetCoeff(b, ci, i, Den)
      b2 == IF i < num_var
            THEN SetBounds(b1, ci, bounds[i + 1][1], bounds[i + 1][2])
            ELSE SetBounds(b1, ci, -LARGE_VALUE, LARGE_VALUE)
  IN NextRow(b2)

RECURSIVE BoxLoop(_, _, _, _)
BoxLoop(b, i, num_var, bounds) ==
  IF i < KNumParam(num_var) THEN BoxLoop(BoxRow(b, i, num_var, bounds), i + 1, num_var, bounds)
  ELSE b

\* lines 42-120: the five row groups in order
BuildConstraints(st, ds, bounds, F) ==
  LET num_var == Len(bounds)
      b0 == NewBuilder(num_var)
      b1 == JerkLoop(b0, 0, num_var, ds, F)
      b2 == VelocityLoop(b1, 0, num_var, ds)
      b3 == PositionLoop(b2, 0, num_var, ds)
      b4 == PinRows(b3, num_var, st)
  IN BoxLoop(b4, 0, num_var, bounds)

\* the linear term q
LinearTerm(bounds, F) ==
  [i \in 0..(KNumParam(Len(bounds)) - 1) |->
     IF i < Len(bounds)
     THEN -(2 * F.weight_lateral_obstacle_distance * (bounds[i + 1][1] + bounds[i + 1][2]))
     ELSE 0]

\* x satisfies lower_bounds <= affine_constraint * x <= upper_bounds
RECURSIVE RowDot(_, _, _)
RowDot(row, x, c) ==
  IF c \notin DOMAIN row THEN 0 ELSE row[c] * x[c] + RowDot(row, x, c + 1)

Feasible(A, l, u, x) ==
  \A r \in DOMAIN A :
     /\ Den * l[r] <= RowDot(A[r], x, 0)
     /\ RowDot(A[r], x, 0) <= Den * u[r]

\* ------------------------------------------------------ solver resources
Resources == {"settings", "data", "P", "A", "work"}

NoHeap ==
  [st    |-> [r \in Resources |-> "none"],
   frees |-> [r \in Resources |-> 0],
   uaf   |-> FALSE]

\* c_malloc / csc_matrix / osqp_setup: r is allocated
Acquire(h, r) == [h EXCEPT !.st[r] = "held"]

\* a read or write through r
Use(h, r) == IF h.st[r] = "held" THEN h ELSE [h EXCEPT !.uaf = TRUE]

\* c_free / osqp_cleanup: r is released
Release(h, r) == [h EXCEPT !.st[r] = "freed", !.frees[r] = @ + 1]

\* lines 142-162: settings, data, data->P, data->A
AssembleHeap(h) ==
  LET h1 == Use(Acquire(h, "settings"), "settings")
      h2 == Use(Acquire(h1, "data"), "data")
      h3 == Use(Acquire(h2, "P"), "data")
  IN Use(Acquire(h3, "A"), "data")

\* lines 167-170: osqp_setup(data, settings), osqp_solve(work)
SolveHeap(h) ==
  LET h1 == Use(Use(Use(Use(h, "data"), "P"), "A"), "settings")
  IN Use(Acquire(h1, "work"), "work")

\* lines 182-186
CleanupHeap_LeakSettings(h) ==
  LET h1 == Release(Use(h, "work"), "work")
      h2 == Release(Use(h1, "data"), "A")
      h3 == Release(Use(h2, "data"), "P")
  IN Release(h3, "data")

CleanupHeap(h) ==
  LET h1 == Release(Use(h, "work"), "work")
      h2 == Release(Use(h1, "data"), "A")
      h3 == Release(Use(h2, "data"), "P")
      h4 == Release(h3, "data")
  IN Release(h4, "settings")

\* ------------------------------------------------------- result extraction
\* the loop of lines 173-177 for one output vector: x[off], ..., x[off + num_var - 1]
\* are pushed back in station order
PushBackBlock_DropLast(out, x, off, num_var) ==
  out \o [i \in 1..(num_var - 1) |-> x[off + i - 1]]

PushBackBlock(out, x, off, num_var) ==
  out \o [i \in 1..num_var |-> x[off + i - 1]]

\* lines 178-179: out[num_var - 1] = 0.0 (0-based index into the whole vector)
TerminalOverride(out, num_var) ==
  IF num_var \in DOMAIN out THEN [out EXCEPT ![num_var] = 0] ELSE out

\* line 188
ReturnValue_FromStatus(w) == w.status = "solved"

ReturnValue(w) == TRUE

\* ------------------------------------------------------------------ actions
NoLocals ==
  /\ d_state = <<0, 0, 0>> /\ delta_s = 0 /\ d_bounds = << >>
  /\ P_data = << >> /\ affine_constraint = << >>
  /\ lower_bounds = << >> /\ upper_bounds = << >>
  /\ constraint_index = 0 /\ assigned = {} /\ oob = FALSE
  /\ q = << >> /\ settings = << >> /\ data = << >>
  /\ work = << >> /\ ret = FALSE

Init ==
  /\ opt_d_ = << >> /\ opt_d_prime_ = << >> /\ opt_d_pprime_ = << >>
  /\ delta_s_ = 0
  /\ FLAGS \in FlagConfigs
  /\ pc = "Uninitialized"
  /\ NoLocals
  /\ heap = NoHeap
  /\ base = 0

\* lines 31-122: optimize is entered with its arguments; the kernel and the
\* constraint rows are built; CHECK_EQ aborts on a row-count mismatch
Build ==
  /\ pc = "Uninitialized"
  /\ \E n \in 1..MaxN :
       /\ Len(opt_d_) + n <= MaxLen
       /\ \E st \in InitStates, ds \in DeltaVals, bounds \in [1..n -> BoundPairs] :
            LET b == BuildConstraints(st, ds, bounds, FLAGS)
            IN /\ d_state' = st /\ delta_s' = ds /\ d_bounds' = bounds
               /\ P_data' = CalculateKernel(bounds, FLAGS)
               /\ delta_s_' = ds
               /\ affine_constraint' = b.affine_constraint
               /\ lower_bounds' = b.lower_bounds
               /\ upper_bounds' = b.upper_bounds
               /\ constraint_index' = b.constraint_index
               /\ assigned' = b.assigned
               /\ oob' = b.oob
               /\ pc' = IF b.constraint_index = KNumConstraint(n)
                        THEN "Built" ELSE "Aborted"
  /\ base' = Len(opt_d_)
  /\ UNCHANGED << outputs, FLAGS, q, settings, data, work, heap, ret >>

\* lines 124-164: CSC form of the constraints, q, settings, data
Assemble ==
  /\ pc = "Built"
  /\ LET num_var == Len(d_bounds)
         n == KNumParam(num_var)
         m == KNumConstraint(num_var)
     IN /\ q' = LinearTerm(d_bounds, FLAGS)
        /\ settings' = [alpha |-> 1, max_iter |-> 5000, polish |-> TRUE,
                        verbose |-> FLAGS.enable_osqp_debug]
        /\ data' = [n |-> n, m |-> m,
                    P |-> csc_matrix(n, n, P_data),
                    q |-> LinearTerm(d_bounds, FLAGS),
                    A |-> csc_matrix(m, n, DenseToCSCMatrix(affine_constraint, m, n)),
                    l |-> lower_bounds, u |-> upper_bounds]
  /\ heap' = AssembleHeap(heap)
  /\ pc' = "Assembled"
  /\ UNCHANGED << outputs, delta_s_, FLAGS, d_state, delta_s, d_bounds, P_data,
                  affine_constraint, lower_bounds, upper_bounds,
                  constraint_index, assigned, oob, work, ret, base >>

\* lines 166-170: osqp_setup and osqp_solve; the solver leaves some primal
\* vector and some status in the workspace
Solve ==
  /\ pc = "Assembled"
  /\ \E x \in [0..(data.n - 1) -> XVals], status \in StatusVals :
       work' = [x |-> x, status |-> status]
  /\ heap' = SolveHeap(heap)
  /\ pc' = "Solved"
  /\ UNCHANGED << outputs, delta_s_, FLAGS, d_state, delta_s, d_bounds, P_data,
                  affine_constraint, lower_bounds, upper_bounds,
                  constraint_index, assigned, oob, q, settings, data, ret, base >>

\* lines 172-179: the primal vector is split into the three output vectors
Extract ==
  /\ pc = "Solved"
  /\ LET num_var == Len(d_bounds)
     IN /\ opt_d_' = PushBackBlock(opt_d_, work.x, 0, num_var)
        /\ opt_d_prime_' =
             TerminalOverride(PushBackBlock(opt_d_prime_, work.x, num_var, num_var),
                              num_var)
        /\ opt_d_pprime_' =
             TerminalOverride(PushBackBlock(opt_d_pprime_, work.x, 2 * num_var, num_var),
                              num_var)
  /\ heap' = Use(heap, "work")
  /\ pc' = "Extracted"
  /\ UNCHANGED << delta_s_, FLAGS, locals, base >>

\* lines 181-188: the solver's resources are released and true is returned
Cleanup ==
  /\ pc = "Extracted"
  /\ heap' = CleanupHeap(heap)
  /\ ret' = ReturnValue(work)
  /\ pc' = "Released"
  /\ UNCHANGED << outputs, delta_s_, FLAGS, d_state, delta_s, d_bounds, P_data,
                  affine_constraint, lower_bounds, upper_bounds,
                  constraint_index, assigned, oob, q, settings, data, work, base >>

\* the call has returned and its locals are gone; the instance is used again
NewCall ==
  /\ pc = "Released"
  /\ Len(opt_d_) < MaxLen
  /\ d_state' = <<0, 0, 0>> /\ delta_s' = 0 /\ d_bounds' = << >>
  /\ P_data' = << >> /\ affine_constraint' = << >>
  /\ lower_bounds' = << >> /\ upper_bounds' = << >>
  /\ constraint_index' = 0 /\ assigned' = {} /\ oob' = FALSE
  /\ q' = << >> /\ settings' = << >> /\ data' = << >>
  /\ work' = << >> /\ ret' = FALSE
  /\ heap' = NoHeap
  /\ pc' = "Uninitialized"
  /\ UNCHANGED << outputs, delta_s_, FLAGS, base >>

Next == Build \/ Assemble \/ Solve \/ Extract \/ Cleanup \/ NewCall

Spec == Init /\ [][Next]_vars

\* ------------------------------------------------------------------ claims
\* the current call has returned
Returned == pc = "Released"

\* number of stations of the current call
NumVar == Len(d_bounds)

\* the entries of an output vector appended by the current call
NewEntries(out) == SubSeq(out, base + 1, Len(out))

\* the solver's primal vector satisfies the constraints handed to it
SolverFeasible == Feasible(affine_constraint, lower_bounds, upper_bounds, work.x)

\* C1: after every return of optimize, also on an instance used before, the
\* final entries of opt_d_prime_ and opt_d_pprime_ are 0.
C1_FinalEntriesZero ==
  Returned =>
    /\ opt_d_prime_[Len(opt_d_prime_)] = 0
    /\ opt_d_pprime_[Len(opt_d_pprime_)] = 0

\* C2 as stated: after every return of optimize called with N station bounds
\* each output vector has length exactly N, whatever calls came before.
C2_LengthIsN ==
  Returned =>
    /\ Len(opt_d_) = NumVar
    /\ Len(opt_d_prime_) = NumVar
    /\ Len(opt_d_pprime_) = NumVar

\* C2 amended: after every return of optimize called with N station bounds on
\* an instance whose output vectors had length L, each output vector has
\* length exactly L + N (exactly N on a fresh instance).
C2_LengthIsBasePlusN ==
  Returned =>
    /\ Len(opt_d_) = base + NumVar
    /\ Len(opt_d_prime_) = base + NumVar
    /\ Len(opt_d_pprime_) = base + NumVar

C2_Witness ==
  Returned /\ base = 1 /\ NumVar = 2 /\ Len(opt_d_pprime_) = 3

\* C3: the extraction of a call with N stations on vectors of length L leaves
\* them with length L + N, keeps the first L entries of each vector, and the
\* new entries are the call's result in station order (the solver's block,
\* the last station's derivatives being the overridden ones).
KeepsAndAppends(old, new, x, off) ==
  /\ Len(new) = Len(old) + NumVar
  /\ SubSeq(new, 1, Len(old)) = old
  /\ \A i \in 1..(NumVar - 1) : new[Len(old) + i] = x[off + i - 1]

C3_AppendOnly ==
  [][ (pc = "Solved" /\ pc' = "Extracted") =>
        /\ KeepsAndAppends(opt_d_, opt_d_', work.x, 0)
        /\ opt_d_'[Len(opt_d_')] = work.x[NumVar - 1]
        /\ KeepsAndAppends(opt_d_prime_, opt_d_prime_', work.x, NumVar)
        /\ KeepsAndAppends(opt_d_pprime_, opt_d_pprime_', work.x, 2 * NumVar) ]_vars

\* C4: the row counter after the five row groups equals
\* kNumConstraint = 3N + 3(N-1) + 3 with kNumParam = 3N, the row-count check
\* never aborts, no write falls outside the matrix or the bound arrays, and
\* every row's bounds are written.
C4_RowCount ==
  /\ pc # "Aborted"
  /\ pc # "Uninitialized" =>
       /\ constraint_index = 3 * NumVar + 3 * (NumVar - 1) + 3
       /\ DOMAIN affine_constraint = 0..(constraint_index - 1)
       /\ \A r \in DOMAIN affine_constraint :
            DOMAIN affine_constraint[r] = 0..(3 * NumVar - 1)
       /\ assigned = 0..(constraint_index - 1)
       /\ ~oob

C4_Witness ==
  pc = "Built" /\ NumVar = 2 /\ constraint_index = 12

\* C5: a call moves Uninitialized -> Built -> Assembled -> Solved -> Extracted
\* -> Released one step at a time (or ends at the row-count abort), no
\* resource is used unless held, and when the call has ended every resource
\* acquired has been released exactly once.
PhaseOrder ==
  { <<"Uninitialized", "Built">>, <<"Built", "Assembled">>,
    <<"Assembled", "Solved">>, <<"Solved", "Extracted">>,
    <<"Extracted", "Released">>, <<"Uninitialized", "Aborted">>,
    <<"Released", "Uninitialized">> }

AllReleasedOnce ==
  \A r \in Resources :
     /\ heap.st[r] # "held"
     /\ heap.frees[r] = (IF heap.st[r] = "freed" THEN 1 ELSE 0)

PhaseStep == (<<pc, pc'>> \in PhaseOrder)

C5_Lifecycle ==
  /\ [][PhaseStep]_vars
  /\ [](~heap.uaf)
  /\ [](pc = "Released" => AllReleasedOnce /\ \A r \in Resources : heap.st[r] = "freed")
  /\ [](pc = "Aborted" => AllReleasedOnce)
  /\ [](pc \in {"Solved", "Extracted"} => \A r \in Resources : heap.st[r] = "held")

C5_Witness ==
  pc = "Released" /\ \A r \in Resources : heap.st[r] = "freed" /\ heap.frees[r] = 1

\* C6: every call that returns returns true, whatever status the solver ended
\* with, and the output vectors are filled from the solver's primal vector.
FilledFromPrimal(out, off) ==
  \A i \in 1..NumVar :
     (base + i # NumVar) => out[base + i] = work.x[off + i - 1]

C6_AlwaysSuccess ==
  Returned =>
    /\ ret = TRUE
    /\ NewEntries(opt_d_) = [i \in 1..NumVar |-> work.x[i - 1]]
    /\ FilledFromPrimal(opt_d_prime_, NumVar)
    /\ FilledFromPrimal(opt_d_pprime_, 2 * NumVar)

C6_Witness ==
  /\ Returned /\ ret = TRUE
  /\ work.status = "primal_infeasible"
  /\ ~SolverFeasible
  /\ \E i \in 1..NumVar : opt_d_[base + i] # 0

\* C7 as stated: for every N >= 1, after optimize on a fresh instance with a
\* solver result satisfying the constraints, the first entries of the three
\* output vectors equal the initial state.
C7_FirstEntriesPinned ==
  (Returned /\ base = 0 /\ SolverFeasible) =>
    /\ opt_d_[1] = d_state[1]
    /\ opt_d_prime_[1] = d_state[2]
    /\ opt_d_pprime_[1] = d_state[3]

\* C7 amended: under the same conditions opt_d_[0] = d_state[0] for every
\* N >= 1; opt_d_prime_[0] = d_state[1] and opt_d_pprime_[0] = d_state[2] for
\* every N >= 2; for N = 1 both derivative entries are 0.
C7_FirstEntriesPinnedFromTwo ==
  (Returned /\ base = 0 /\ SolverFeasible) =>
    /\ opt_d_[1] = d_state[1]
    /\ NumVar >= 2 => /\ opt_d_prime_[1] = d_state[2]
                      /\ opt_d_pprime_[1] = d_state[3]
    /\ NumVar = 1 => /\ opt_d_prime_[1] = 0
                     /\ opt_d_pprime_[1] = 0

C7_Witness ==
  /\ Returned /\ base = 0 /\ SolverFeasible
  /\ NumVar = 2 /\ d_state[2] = 1 /\ opt_d_prime_[1] = 1

\* every station bound of the call is (v, v)
Degenerate(v) == \A i \in 1..NumVar : d_bounds[i] = <<v, v>>

\* some primal vector satisfies the constraints
FeasibleExists ==
  \E y \in [0..(3 * NumVar - 1) -> (-LARGE_VALUE)..LARGE_VALUE] :
     Feasible(affine_constraint, lower_bounds, upper_bounds, y)

\* C8 as stated: if every station bound is (v, v) then, for every initial
\* state, the offsets stored by the call equal v at each station, the solver
\* returning a feasible point when one exists.
C8_DegenerateOffsets ==
  \A v \in {0, 1} :
    (Returned /\ Degenerate(v) /\ (FeasibleExists => SolverFeasible)) =>
       \A i \in 1..NumVar : opt_d_[base + i] = v

\* C8 amended: if every station bound is (v, v) and the solver's result
\* satisfies the constraints (which needs d_state[0] = v), the offsets stored
\* by the call equal v at each station.
C8_DegenerateOffsetsWhenFeasible ==
  \A v \in {0, 1} :
    (Returned /\ Degenerate(v) /\ SolverFeasible) =>
       /\ d_state[1] = v
       /\ \A i \in 1..NumVar : opt_d_[base + i] = v

C8_Witness ==
  /\ Returned /\ Degenerate(1) /\ SolverFeasible /\ NumVar = 2
  /\ opt_d_[base + 1] = 1 /\ opt_d_[base + 2] = 1

\* C9: the constraint matrix and the bound vectors equal the reference layout
\* row for row: jerk rows, velocity-continuity rows, position-continuity rows,
\* the three pin rows, the identity rows with the boxes; every other entry 0.
\* (coefficients as numerators over Den)
RefCoeff(r, c) ==
  LET N == NumVar
      ds == delta_s
  IN IF r <= N - 2 THEN
       LET i == r IN
         IF c = 2 * N + i THEN -Den
         ELSE IF c = 2 * N + i + 1 THEN Den ELSE 0
     ELSE IF r <= 2 * N - 3 THEN
       LET i == r - (N - 1) IN
         IF c = N + i THEN -Den
         ELSE IF c = N + i + 1 THEN Den
         ELSE IF c = 2 * N + i \/ c = 2 * N + i + 1 THEN -((Den * ds) \div 2)
         ELSE 0
     ELSE IF r <= 3 * N - 4 THEN
       LET i == r - (2 * N - 2) IN
         IF c = i THEN -Den
         ELSE IF c = i + 1 THEN Den
         ELSE IF c = N + i THEN -(Den * ds)
         ELSE IF c = 2 * N + i THEN -((Den * ds * ds) \div 3)
         ELSE IF c = 2 * N + i + 1 THEN -((Den * ds * ds) \div 6)
         ELSE 0
     ELSE IF r <= 3 * N - 1 THEN
       (IF c = (r - (3 * N - 3)) * N THEN Den ELSE 0)
     ELSE (IF c = r - 3 * N THEN Den ELSE 0)

RefBound(r) ==
  LET N == NumVar
      J == FLAGS.lateral_third_order_derivative_max
  IN IF r <= N - 2 THEN << -(J * delta_s), J * delta_s >>
     ELSE IF r <= 3 * N - 4 THEN <<0, 0>>
     ELSE IF r <= 3 * N - 1 THEN
       << d_state[r - (3 * N - 3) + 1], d_state[r - (3 * N - 3) + 1] >>
     ELSE IF r - 3 * N < N THEN d_bounds[r - 3 * N + 1]
     ELSE << -2, 2 >>

C9_ConstraintLayout ==
  pc = "Built" =>
    /\ affine_constraint =
         [r \in 0..(6 * NumVar - 1) |-> [c \in 0..(3 * NumVar - 1) |-> RefCoeff(r, c)]]
    /\ lower_bounds = [r \in 0..(6 * NumVar - 1) |-> RefBound(r)[1]]
    /\ upper_bounds = [r \in 0..(6 * NumVar - 1) |-> RefBound(r)[2]]

C9_Witness ==
  /\ pc = "Built" /\ NumVar = 2 /\ delta_s = 2
  /\ affine_constraint[2][4] = -8 /\ affine_constraint[2][5] = -4

\* C10: the objective handed to the solver is the 3N x 3N diagonal matrix
\* with 2*(w_offset + w_obstacle_distance) on the first N diagonal entries,
\* 2*w_derivative on the next N and 2*w_second_derivative on the last N, and
\* q has length 3N with q_i = -2*w_obstacle_distance*(lower_i + upper_i) for
\* i < N and 0 otherwise.
RefP(r, c) ==
  IF r # c THEN 0
  ELSE IF r < NumVar
       THEN 2 * (FLAGS.weight_lateral_offset + FLAGS.weight_lateral_obstacle_distance)
       ELSE IF r < 2 * NumVar THEN 2 * FLAGS.weight_lateral_derivative
            ELSE 2 * FLAGS.weight_lateral_second_order_derivative

C10_Objective ==
  pc = "Assembled" =>
    /\ data.n = 3 * NumVar
    /\ CscToDense(data.P) =
         [r \in 0..(3 * NumVar - 1) |-> [c \in 0..(3 * NumVar - 1) |-> RefP(r, c)]]
    /\ data.q = [i \in 0..(3 * NumVar - 1) |->
                   IF i < NumVar
                   THEN -(2 * FLAGS.weight_lateral_obstacle_distance
                            * (d_bounds[i + 1][1] + d_bounds[i + 1][2]))
                   ELSE 0]

C10_Witness ==
  /\ pc = "Assembled" /\ NumVar = 2
  /\ FLAGS.weight_lateral_obstacle_distance = 1
  /\ d_bounds = << <<0, 1>>, <<1, 1>> >>
  /\ data.q[0] = -2 /\ data.q[1] = -4

====
